---- MODULE Spec2Model ----
(***************************************************************************)
(* OPAL: the call protocol of Function.eval, the template/instance object  *)
(* model, the scoped special forms, the parser's quote expansion and the   *)
(* cxr accessors.                                                           *)
(*                                                                         *)
(* src/src/datatypes.py, src/src/keywords.py and src/src/parser.py are     *)
(* translated from the source.  The Environment class (environment.py),    *)
(* the evaluator (evaluate.py) and the session driver are not among the    *)
(* source files; their operations are modelled from spec.md, sections 3,   *)
(* 4.1 and 4.5: an Environment is an ordered sequence of (name, value)     *)
(* bindings, the latest binding of a name is the one a lookup returns.     *)
(***************************************************************************)
EXTENDS Integers, Sequences, FiniteSets, TLC

\* ------------------------------------------------------------------ bounds

MaxDepth == 2

MaxEnvLen == 5

MaxVal == 2

MaxCalls == 3

MaxTok == 5

MaxCxr == 3

\* ------------------------------------------------------------------ values

\* A value of the language: a number or a Function (its parameters and body,
\* named by the id of the Function they belong to).
IntV(k) == [t |-> "int", n |-> k, id |-> ""]

Fn(i) == [t |-> "fn", n |-> 0, id |-> i]

Bind(nm, v) == [name |-> nm, val |-> v]

Min2(a, b) == IF a < b THEN a ELSE b

\* ------------------------------------------------------- Environment (spec)

\* Index of the latest binding of nm in env, 0 when there is none.
Idx(env, nm) ==
    LET S == {i \in 1..Len(env) : env[i].name = nm}
    IN  IF S = {} THEN 0 ELSE CHOOSE i \in S : \A j \in S : j <= i

Bound(env, nm) == Idx(env, nm) # 0

lookup(env, nm) == env[Idx(env, nm)].val

extend(env, child) == env \o child

end_scope(env, k) == SubSeq(env, 1, IF k > Len(env) THEN 0 ELSE Len(env) - k)

set(env, nm, v) ==
    IF Bound(env, nm) THEN [env EXCEPT ![Idx(env, nm)] = Bind(nm, v)]
    ELSE Append(env, Bind(nm, v))

\* define adds a binding, which shadows an earlier one of the same name.
define(env, nm, fnv) == Append(env, Bind(nm, fnv))

delete(env, nm) ==
    IF Bound(env, nm)
    THEN SubSeq(env, 1, Idx(env, nm) - 1) \o SubSeq(env, Idx(env, nm) + 1, Len(env))
    ELSE env

match_arguments(env, params, args) ==
    env \o [i \in 1..Len(params) |-> Bind(params[i], args[i])]

clone(env) == env

\* runlocal: the local scope opened at length `mark` is torn down on exit.
runlocal_end(env, mark) == SubSeq(env, 1, Min2(mark, Len(env)))

\* ---------------------------------------------------------------- closables

\* The ids given to the lambdas a session constructs, in order.
LamName == <<"h1">>

\* The ids given to the instances a session constructs, in order.
InstName == <<"i1", "i2">>

LambdaIds == {LamName[i] : i \in 1..Len(LamName)}

InstanceIds == {InstName[i] : i \in 1..Len(InstName)}

StaticFns == {"f", "g", "L"}

MethodIds == {"inc", "add"}

TemplateIds == {"Counter", "Point"}

FunctionIds == StaticFns \cup MethodIds \cup LambdaIds

ClosableIds == FunctionIds \cup TemplateIds \cup InstanceIds

\* Function.__init__: the type of a Function.
FnType(f) ==
    IF f \in MethodIds THEN "method"
    ELSE IF f = "L" \/ f \in LambdaIds THEN "lambda"
    ELSE "function"

\* Closable.__init__: the parameter list (parameters or []).
Params(f) ==
    CASE f = "f" -> <<"x">>
      [] f = "add" -> <<"x">>
      [] f = "Point" -> <<"n">>
      [] OTHER -> <<>>

\* ------------------------------------------------------------------- state

VARIABLES
    CLOSURES,   \* cf.config.CLOSURES: closable id -> bindings of its Environment
    TOPENV,     \* the bindings of the session's top-level Environment
    ENV,        \* cf.config.ENV: which Environment is active ("top" or an instance id)
    stack,      \* the evaluations in progress, innermost last
    exc,        \* the failure being propagated, "none" when there is none
    value,      \* the value of the last evaluated expression
    made,       \* the lambdas and instances constructed so far: [id, name, ok]
    calls,      \* the number of calls made in the session (bounded by MaxCalls)
    tokens,     \* parser: the source text, tokenised
    parsed,     \* parser: the result of parse
    pphase,     \* parser: "src" or "parsed"
    cxr,        \* cxr evaluation in progress
    GLOBALS,    \* cf.config.GLOBALS: name -> <<value>>, <<>> when the name is absent
    gres        \* the last call of the globals builtin: <<[var, val, ret]>>

vars == <<CLOSURES, TOPENV, ENV, stack, exc, value, made, calls, tokens, parsed, pphase, cxr,
          GLOBALS, gres>>

parseVars == <<tokens, parsed, pphase>>

evalVars == <<CLOSURES, TOPENV, ENV, stack, exc, value, made, calls>>

globVars == <<GLOBALS, gres>>

MadeIds == {m.id : m \in made}

\* Closable.name of a constructed closable.
NameOf(i) == (CHOOSE m \in made : m.id = i).name

\* A frame of the evaluation stack.  kind "call": Function.eval of function id;
\* kind "form": a special form (id is its name); kind "closed": runClosed on the
\* closure of instance id (form "init" or "method").
Frame(kind, id, form, mark, before, args, selfBefore, saved) ==
    [kind |-> kind, id |-> id, form |-> form, mark |-> mark, before |-> before,
     args |-> args, replaced |-> FALSE, selfBefore |-> selfBefore, saved |-> saved,
     pc |-> 1]

EnvIds == ClosableIds \cup {"top"}

\* Every Environment object by reference: the registry's and the top-level one.
Store == [id \in EnvIds |-> IF id = "top" THEN TOPENV ELSE CLOSURES[id]]

Commit(s) ==
    /\ CLOSURES' = [id \in ClosableIds |-> s[id]]
    /\ TOPENV' = s["top"]

\* The bindings of the active Environment, cf.config.ENV.
Act == Store[ENV]

Top == stack[Len(stack)]

Pop(st) == SubSeq(st, 1, Len(st) - 1)

\* ------------------------------------------------------------ Function.eval

\* An arity test that refuses only a call with too few arguments.
ArityTooFew(f, args) == Len(Params(f)) > Len(args)

\* datatypes.py:83, the arity test.
ArityMismatch(f, args) == Len(Params(f)) # Len(args)

\* datatypes.py:63 and :75, the test guarding the `self` binding.
HasSelf(f) == FnType(f) \in {"lambda", "self"}

\* datatypes.py:60-65: bind the parameters, bind self, extend the active scope.
LogicEnter(s, env, f, args) ==
    LET c1 == match_arguments(s[f], Params(f), args)
        c2 == IF HasSelf(f) THEN define(c1, "self", Fn(f)) ELSE c1
        s1 == [s EXCEPT ![f] = c2]
    IN  [s1 EXCEPT ![env] = extend(s1[env], s1[f])]

\* datatypes.py:73-75, the finally block.
LogicFinally(s, env, f) ==
    LET s2 == [s EXCEPT ![env] = end_scope(s[env], Len(s[f]))]
    IN  IF HasSelf(f) THEN [s2 EXCEPT ![f] = delete(s2[f], "self")] ELSE s2

\* datatypes.py:71: a returned Function gets a copy of the current closure.
LogicCapture(s, f, v) ==
    IF v.t = "fn" THEN [s EXCEPT ![v.id] = clone(s[f])] ELSE s

\* runlocal's teardown acts on the Environment object the call started on; when
\* the registry entry was replaced meanwhile (line 71), that object is no longer
\* the registry's and the entry keeps what it holds.
RunlocalExit(s, f, fr, replacedNow) ==
    IF replacedNow THEN s ELSE [s EXCEPT ![f] = runlocal_end(s[f], fr.mark)]

\* Frames of function id whose registry entry has just been replaced.
MarkReplaced(st, v) ==
    [i \in 1..Len(st) |->
        IF v.t = "fn" /\ st[i].kind = "call" /\ st[i].id = v.id
        THEN [st[i] EXCEPT !.replaced = TRUE] ELSE st[i]]

ArgLists == {<<>>, <<IntV(1)>>}

CallNames == {"f", "g", "L", "self", "inc", "add"}

CallEnter(nm, args) ==
    /\ exc = "none"
    /\ Len(stack) < MaxDepth
    /\ Bound(Act, nm)
    /\ lookup(Act, nm).t = "fn"
    /\ calls < MaxCalls
    /\ calls' = calls + 1
    /\ LET f == lookup(Act, nm).id
       IN  IF ArityMismatch(f, args)
           THEN /\ exc' = "TypeError"
                /\ UNCHANGED <<CLOSURES, TOPENV, ENV, stack, value, made>>
           ELSE LET s1 == LogicEnter(Store, ENV, f, args)
                IN  /\ Len(s1[ENV]) <= MaxEnvLen
                    /\ Commit(s1)
                    /\ stack' = Append(stack,
                          Frame("call", f, "", Len(CLOSURES[f]), Len(Act), args,
                                Bound(Act, "self") \/ Bound(CLOSURES[f], "self"), ENV))
                    /\ value' = IntV(0)
                    /\ UNCHANGED <<ENV, exc, made>>
    /\ UNCHANGED <<parseVars, cxr, globVars>>

CallExit ==
    /\ exc = "none"
    /\ stack # <<>>
    /\ Top.kind = "call"
    /\ LET f == Top.id
           s1 == LogicCapture(Store, f, value)
           s2 == LogicFinally(s1, ENV, f)
           s3 == RunlocalExit(s2, f, Top, Top.replaced \/ (value.t = "fn" /\ value.id = f))
       IN  /\ Commit(s3)
           /\ stack' = MarkReplaced(Pop(stack), value)
    /\ value' = IF Len(stack) = 1 THEN IntV(0) ELSE value
    /\ UNCHANGED <<ENV, exc, made, calls, parseVars, cxr, globVars>>

CallUnwind ==
    /\ exc # "none"
    /\ stack # <<>>
    /\ Top.kind = "call"
    /\ LET f == Top.id
           s2 == LogicFinally(Store, ENV, f)
           s3 == RunlocalExit(s2, f, Top, Top.replaced)
       IN  /\ Commit(s3)
           /\ stack' = Pop(stack)
    /\ UNCHANGED <<ENV, exc, value, made, calls, parseVars, cxr, globVars>>

\* ------------------------------------------------- expressions of a body

\* The innermost scope of the active Environment belongs to a Function call:
\* the spec places no fresh binding inside a call's own scope, so the model
\* adds fresh names only at top level, in a form's scope and in an instance.
ScopeFrames ==
    {i \in 1..Len(stack) :
        \/ stack[i].kind \in {"call", "closed"}
        \/ stack[i].kind = "form" /\ stack[i].id \in {"until", "let", "do"}}

InnermostScopeIsCall ==
    /\ ScopeFrames # {}
    /\ stack[CHOOSE i \in ScopeFrames : \A j \in ScopeFrames : j <= i].kind = "call"

SymbolNames == {"f", "g", "L", "self"}

\* A symbol evaluates by lookup in the active Environment (NameError if unbound).
EvalSymbol(nm) ==
    /\ exc = "none"
    /\ stack # <<>>
    /\ IF Bound(Act, nm)
       THEN /\ value' = lookup(Act, nm)
            /\ value' # value
            /\ UNCHANGED exc
       ELSE /\ exc' = "NameError"
            /\ UNCHANGED value
    /\ UNCHANGED <<CLOSURES, TOPENV, ENV, stack, made, calls, parseVars, cxr, globVars>>

\* A lambda expression constructs a Function: Closable.__init__ installs an
\* empty Environment in the registry under the new id.
EvalLambda ==
    /\ exc = "none"
    /\ stack # <<>>
    /\ Cardinality(MadeIds \cap LambdaIds) < Len(LamName)
    /\ LET h == LamName[Cardinality(MadeIds \cap LambdaIds) + 1]
       IN  /\ made' = made \cup {[id |-> h, name |-> "lambda", ok |-> TRUE]}
           /\ CLOSURES' = [CLOSURES EXCEPT ![h] = <<>>]
           /\ value' = Fn(h)
    /\ UNCHANGED <<TOPENV, ENV, stack, exc, calls, parseVars, cxr, globVars>>

\* Environment.set on the active Environment.
SetVar(nm, k) ==
    /\ exc = "none"
    /\ \/ Bound(Act, nm)
       \/ ~InnermostScopeIsCall /\ Len(Act) < MaxEnvLen
    /\ set(Act, nm, IntV(k)) # Act
    /\ Commit([Store EXCEPT ![ENV] = set(Act, nm, IntV(k))])
    /\ UNCHANGED <<ENV, stack, exc, value, made, calls, parseVars, cxr, globVars>>

\* A failure raised while a body is evaluated.
Raise ==
    /\ exc = "none"
    /\ stack # <<>>
    /\ exc' = "Error"
    /\ UNCHANGED <<CLOSURES, TOPENV, ENV, stack, value, made, calls, parseVars, cxr, globVars>>

\* The session driver reports a failure that reached the top level.
Catch ==
    /\ exc # "none"
    /\ stack = <<>>
    /\ exc' = "none"
    /\ value' = IntV(0)
    /\ UNCHANGED <<CLOSURES, TOPENV, ENV, stack, made, calls, parseVars, cxr, globVars>>

\* ------------------------------------------------ let, do, until, repeat

Forms == {"let", "do", "until", "repeat"}

\* keywords.py:188, :198, :208: until, let and do run their logic under
\* cf.config.ENV.runlocal; repeat (keywords.py:172-177) evaluates directly.
RunsLocal(form) == form \in {"until", "let", "do"}

\* keywords.py:195: let sets its binding pairs first (here the pair (y 1)).
FormSets(form, env) == IF form = "let" THEN set(env, "y", IntV(1)) ELSE env

FormEnter(form) ==
    /\ exc = "none"
    /\ Len(stack) < MaxDepth
    /\ Len(Act) < MaxEnvLen
    /\ Commit([Store EXCEPT ![ENV] = FormSets(form, Act)])
    /\ stack' = Append(stack, Frame("form", form, form, Len(Act), Len(Act), <<>>, FALSE, ENV))
    /\ UNCHANGED <<ENV, exc, value, made, calls, parseVars, cxr, globVars>>

FormTeardown(form, env, mark) ==
    IF RunsLocal(form) THEN runlocal_end(env, mark) ELSE env

FormExit ==
    /\ exc = "none"
    /\ stack # <<>>
    /\ Top.kind = "form"
    /\ LET e == FormTeardown(Top.id, Act, Top.mark)
       IN  /\ Commit([Store EXCEPT ![ENV] = e])
    /\ stack' = Pop(stack)
    /\ UNCHANGED <<ENV, exc, value, made, calls, parseVars, cxr, globVars>>

FormUnwind ==
    /\ exc # "none"
    /\ stack # <<>>
    /\ Top.kind = "form"
    /\ LET e == FormTeardown(Top.id, Act, Top.mark)
       IN  /\ Commit([Store EXCEPT ![ENV] = e])
    /\ stack' = Pop(stack)
    /\ UNCHANGED <<ENV, exc, value, made, calls, parseVars, cxr, globVars>>

\* ------------------------------------------------ templates and instances

Decl(tag, nm, v, stmts) == [tag |-> tag, name |-> nm, val |-> v, stmts |-> stmts]

\* The bodies of the two templates: Counter has a variable n = 0 and a method
\* inc; Point has a constructor parameter n, a variable n = 0, a method add
\* and two init declarations, the first of which sets m to 1 and then to 2.
TemplateBody(t) ==
    IF t = "Counter"
    THEN <<Decl("var", "n", IntV(0), <<>>), Decl("func", "inc", Fn("inc"), <<>>)>>
    ELSE <<Decl("var", "n", IntV(0), <<>>),
           Decl("init", "", IntV(0), <<Bind("m", IntV(1)), Bind("m", IntV(2))>>),
           Decl("func", "add", Fn("add"), <<>>),
           Decl("init", "", IntV(0), <<Bind("m", IntV(0))>>)>>

Tagged(t, tag) == SelectSeq(TemplateBody(t), LAMBDA e : e.tag = tag)

DeclNames(ds) == [k \in 1..Len(ds) |-> ds[k].name]

DeclVals(ds) == [k \in 1..Len(ds) |-> ds[k].val]

\* datatypes.py:106-109: init is the first declaration tagged "init".
TemplateInit(t) ==
    IF Tagged(t, "init") = <<>> THEN <<>> ELSE Tagged(t, "init")[1].stmts

\* datatypes.py:102-115: the template's closure holds its variables, then
\* its methods.
TemplateClosure(t) ==
    match_arguments(
        match_arguments(<<>>, DeclNames(Tagged(t, "var")), DeclVals(Tagged(t, "var"))),
        DeclNames(Tagged(t, "func")), DeclVals(Tagged(t, "func")))

\* An instance environment built in the order template copy, then parameters.
TemplateThenParams(t, args, tenv) == tenv \o match_arguments(<<>>, Params(t), args)

\* datatypes.py:125 and :128: Instance.__init__ binds the constructor
\* parameters in the new, empty closure; then the template's bindings are
\* appended to it.
NewInstanceEnv(t, args, tenv) == match_arguments(<<>>, Params(t), args) \o tenv

\* The id of the next Instance to be constructed.
NextInstance == InstName[Cardinality(MadeIds \cap InstanceIds) + 1]

\* Template.new.
New(t, args) ==
    /\ exc = "none"
    /\ Len(stack) < MaxDepth
    /\ Len(args) = Len(Params(t))
    /\ Cardinality(MadeIds \cap InstanceIds) < Len(InstName)
    /\ LET i == NextInstance
       IN  /\ CLOSURES' = [CLOSURES EXCEPT ![i] = NewInstanceEnv(t, args, CLOSURES[t])]
           /\ IF TemplateInit(t) # <<>>
              THEN /\ stack' = Append(stack, Frame("closed", i, "init", 0, 0, <<>>, FALSE, ENV))
                   /\ ENV' = i
                   /\ made' = made \cup {[id |-> i, name |-> t, ok |-> FALSE]}
              ELSE /\ made' = made \cup {[id |-> i, name |-> t, ok |-> TRUE]}
                   /\ UNCHANGED <<stack, ENV>>
    /\ UNCHANGED <<TOPENV, exc, value, calls, parseVars, cxr, globVars>>

\* datatypes.py:123: the next init statement, (set name value), is evaluated.
InitStep ==
    /\ exc = "none"
    /\ stack # <<>>
    /\ Top.kind = "closed"
    /\ Top.form = "init"
    /\ Top.pc <= Len(TemplateInit(NameOf(Top.id)))
    /\ LET st == TemplateInit(NameOf(Top.id))[Top.pc]
       IN  Commit([Store EXCEPT ![ENV] = set(Act, st.name, st.val)])
    /\ stack' = [stack EXCEPT ![Len(stack)].pc = @ + 1]
    /\ UNCHANGED <<ENV, exc, value, made, calls, parseVars, cxr, globVars>>

\* runClosed returns: the borrowed scope is deactivated.  When it was the
\* init of a new Instance, Template.new returns the Instance.
ClosedExit ==
    /\ exc = "none"
    /\ stack # <<>>
    /\ Top.kind = "closed"
    /\ Top.form = "init" => Top.pc > Len(TemplateInit(NameOf(Top.id)))
    /\ ENV' = Top.saved
    /\ stack' = Pop(stack)
    /\ made' = IF Top.form = "init"
               THEN {IF m.id = Top.id THEN [m EXCEPT !.ok = TRUE] ELSE m : m \in made}
               ELSE made
    /\ value' = IF Len(stack) = 1 THEN IntV(0) ELSE value
    /\ UNCHANGED <<CLOSURES, TOPENV, exc, calls, parseVars, cxr, globVars>>

\* runClosed is left by a failure: the borrowed scope is deactivated.
ClosedUnwind ==
    /\ exc # "none"
    /\ stack # <<>>
    /\ Top.kind = "closed"
    /\ ENV' = Top.saved
    /\ stack' = Pop(stack)
    /\ UNCHANGED <<CLOSURES, TOPENV, exc, value, made, calls, parseVars, cxr, globVars>>

\* A dispatch that uses the closure of the instance's template.
TemplateScope(i) == NameOf(i)

\* datatypes.py:155: the scope runClosed activates is the instance's closure.
InstanceScope(i) == i

\* A dispatch that reports every name it cannot call as a NameError.
NameErrorOutcome(env, m) ==
    IF Bound(env, m) /\ lookup(env, m).t = "fn" THEN "call" ELSE "NameError"

\* datatypes.py:153: lookup fails with NameError for an unbound name; the
\* value found is sent .eval, which a value that is no Closable does not have.
MethodOutcome(env, m) ==
    IF ~Bound(env, m) THEN "NameError"
    ELSE IF lookup(env, m).t # "fn" THEN "AttributeError"
    ELSE "call"

MethodNames == {"inc", "add", "n", "zz"}

\* A method body or an init statement assigns the variable n.
Assign(k) == ENV # "top" /\ SetVar("n", k)

\* Instance.eval on an Instance the program holds.
InstanceEval(i, m, args) ==
    /\ exc = "none"
    /\ \E r \in made : r.id = i /\ r.ok /\ r.name \in TemplateIds
    /\ Len(stack) + 2 <= MaxDepth
    /\ calls < MaxCalls
    /\ calls' = calls + 1
    /\ LET scope == InstanceScope(i)
           out == MethodOutcome(Store[scope], m)
       IN  IF out # "call"
           THEN /\ exc' = out
                /\ UNCHANGED <<CLOSURES, TOPENV, ENV, stack, value, made>>
           ELSE LET f == lookup(Store[scope], m).id
                IN  IF ArityMismatch(f, args)
                    THEN /\ exc' = "TypeError"
                         /\ UNCHANGED <<CLOSURES, TOPENV, ENV, stack, value, made>>
                    ELSE LET s1 == LogicEnter(Store, scope, f, args)
                         IN  /\ Len(s1[scope]) <= MaxEnvLen
                             /\ Commit(s1)
                             /\ ENV' = scope
                             /\ stack' = stack \o
                                  <<Frame("closed", scope, "method", 0, 0, <<>>, FALSE, ENV),
                                    Frame("call", f, "", Len(CLOSURES[f]), Len(Store[scope]),
                                          args, Bound(Store[scope], "self"), scope)>>
                             /\ value' = IntV(0)
                             /\ UNCHANGED <<exc, made>>
    /\ UNCHANGED <<parseVars, cxr, globVars>>

\* ------------------------------------------------------------------ parser

\* A parsed expression: a string atom, a number, or a list of expressions.
Str(x) == [k |-> "str", s |-> x, n |-> 0, items |-> <<>>]

Num(x) == [k |-> "int", s |-> "", n |-> x, items |-> <<>>]

List(xs) == [k |-> "list", s |-> "", n |-> 0, items |-> xs]

\* The tokens OPAL_to_list produces from the texts considered: parentheses,
\* the quote mark, a symbol and a numeral.
Alphabet == {"(", ")", "'", "a", "1"}

\* Number of "(" minus number of ")" among the first i tokens.
RECURSIVE Balance(_, _)
Balance(expr, i) ==
    IF i = 0 THEN 0
    ELSE Balance(expr, i - 1)
         + (IF expr[i] = "(" THEN 1 ELSE IF expr[i] = ")" THEN -1 ELSE 0)

\* isperfectlybalanced: no closing parenthesis without an opening one, and
\* none left open.
Balanced(expr) ==
    /\ \A i \in 1..Len(expr) : Balance(expr, i) >= 0
    /\ Balance(expr, Len(expr)) = 0

\* get_opp_par: the first position at which the parentheses balance (0 when
\* there is none).
get_opp_par(expr) ==
    LET S == {i \in 1..Len(expr) : Balance(expr, i) = 0}
    IN  IF S = {} THEN 0 ELSE CHOOSE i \in S : \A j \in S : i <= j

\* kw.isnumber, on the numerals of the alphabet.
isnumber(x) == x \in {"0", "1", "2", "3", "4", "5", "6", "7", "8", "9"}

\* The integer a numeral denotes.
IntOf(x) ==
    CASE x = "0" -> 0 [] x = "1" -> 1 [] x = "2" -> 2 [] x = "3" -> 3 [] x = "4" -> 4
      [] x = "5" -> 5 [] x = "6" -> 6 [] x = "7" -> 7 [] x = "8" -> 8 [] OTHER -> 9

\* retype: a numeral string becomes a number, any other atom stays a string.
retype(e) == IF isnumber(e.s) THEN Num(IntOf(e.s)) ELSE e

RECURSIVE lst_to_Python(_)
lst_to_Python(expr) ==
    IF expr = <<>> THEN <<>>
    ELSE IF expr[1] = "("
    THEN LET closing_idx == get_opp_par(expr)
         IN  <<List(lst_to_Python(SubSeq(expr, 2, closing_idx - 1)))>>
             \o lst_to_Python(SubSeq(expr, closing_idx + 1, Len(expr)))
    ELSE <<Str(expr[1])>> \o lst_to_Python(Tail(expr))

\* preprocess raises IndexError: a quote mark is the last element at hand.
RECURSIVE PreprocessFails(_)
PreprocessFails(expr) ==
    IF expr = <<>> THEN FALSE
    ELSE IF expr[1].k = "list"
    THEN PreprocessFails(expr[1].items) \/ PreprocessFails(Tail(expr))
    ELSE IF expr[1].s = "'"
    THEN \/ Len(expr) < 2
         \/ Len(expr) >= 2 /\ expr[2].k = "list" /\ PreprocessFails(expr[2].items)
         \/ Len(expr) >= 2 /\ PreprocessFails(SubSeq(expr, 3, Len(expr)))
    ELSE PreprocessFails(Tail(expr))

\* preprocess on a list of expressions (parser.py:99-109); on an atom it
\* returns the atom as it is (parser.py:112).
RECURSIVE preprocess(_)
preprocess(expr) ==
    IF expr = <<>> THEN <<>>
    ELSE IF expr[1].k = "list"
    THEN <<List(preprocess(expr[1].items))>> \o preprocess(Tail(expr))
    ELSE IF expr[1].s = "'"
    THEN IF Len(expr) < 2 THEN <<>>
         ELSE <<List(<<Str("quote"),
                       IF expr[2].k = "list" THEN List(preprocess(expr[2].items))
                       ELSE expr[2]>>)>>
              \o preprocess(SubSeq(expr, 3, Len(expr)))
    ELSE <<retype(expr[1])>> \o preprocess(Tail(expr))

\* parse, after the syntax check: the last of the preprocessed expressions.
ParseOf(toks) ==
    LET out == preprocess(lst_to_Python(toks))
    IN  out[Len(out)]

\* parse: SyntaxError for unbalanced parentheses, IndexError from preprocess
\* or from pop, else the parsed expression.
Parse ==
    /\ pphase = "src"
    /\ IF ~Balanced(tokens)
       THEN pphase' = "SyntaxError" /\ parsed' = <<>>
       ELSE IF PreprocessFails(lst_to_Python(tokens)) \/ preprocess(lst_to_Python(tokens)) = <<>>
       THEN pphase' = "IndexError" /\ parsed' = <<>>
       ELSE pphase' = "parsed" /\ parsed' = <<ParseOf(tokens)>>
    /\ UNCHANGED <<tokens, evalVars, cxr, globVars>>

\* ------------------------------------------------------------ cxr accessors

\* A value an accessor is applied to: a number, a boolean, a string atom (its
\* characters) or a list.
CNum(x) == [k |-> "int", n |-> x, chars |-> <<>>, items |-> <<>>]

CBool(x) == [k |-> "bool", n |-> x, chars |-> <<>>, items |-> <<>>]

CStr(cs) == [k |-> "str", n |-> 0, chars |-> cs, items |-> <<>>]

CList(xs) == [k |-> "list", n |-> 0, chars |-> <<>>, items |-> xs]

\* The outcome of an accessor: a value, or the TypeError it raises.
Ret(v) == [ok |-> TRUE, v |-> v, acc |-> ""]

Fail(acc) == [ok |-> FALSE, v |-> CNum(0), acc |-> acc]

\* head: x[0]; whatever the indexing raises becomes a TypeError naming car.
head(x) ==
    IF x.k = "list" /\ x.items # <<>> THEN Ret(x.items[1])
    ELSE IF x.k = "str" /\ x.chars # <<>> THEN Ret(CStr(<<x.chars[1]>>))
    ELSE Fail("car")

\* tail: x[1:]; whatever the slicing raises becomes a TypeError naming cdr.
tail(x) ==
    IF x.k = "list" THEN Ret(CList(SubSeq(x.items, 2, Len(x.items))))
    ELSE IF x.k = "str" THEN Ret(CStr(SubSeq(x.chars, 2, Len(x.chars))))
    ELSE Fail("cdr")

CxrTargets ==
    {CNum(1), CBool(1), CStr(<<"a", "b">>), CList(<<>>),
     CList(<<CNum(1), CNum(2), CNum(3)>>),
     CList(<<CList(<<CNum(1), CNum(2)>>), CStr(<<"a", "b">>), CNum(3)>>)}

CxrLetters == UNION {[1..n -> {"a", "d"}] : n \in 1..MaxCxr}

\* evcxr: one letter is peeled off the right end of x and applied to output;
\* with no letter left, output is returned.
EvcxrStep ==
    /\ cxr.status = "run"
    /\ cxr.x # <<>>
    /\ LET r == IF cxr.x[Len(cxr.x)] = "a" THEN head(cxr.output) ELSE tail(cxr.output)
       IN  cxr' = IF r.ok
                  THEN [cxr EXCEPT !.x = SubSeq(cxr.x, 1, Len(cxr.x) - 1), !.output = r.v]
                  ELSE [cxr EXCEPT !.status = "TypeError", !.acc = r.acc]
    /\ UNCHANGED <<evalVars, parseVars, globVars>>

EvcxrReturn ==
    /\ cxr.status = "run"
    /\ cxr.x = <<>>
    /\ cxr' = [cxr EXCEPT !.status = "done"]
    /\ UNCHANGED <<evalVars, parseVars, globVars>>

\* ------------------------------------------------------------------ globals

\* retype: "#t" and "#f" become booleans (1 for true, 0 for false).
Boolean(x) == [k |-> "bool", s |-> "", n |-> x, items |-> <<>>]

\* The default of the parameter val: None, when globals is given a name alone.
NoneV == [k |-> "none", s |-> "", n |-> 0, items |-> <<>>]

\* The class ValueError, the default GLOBALS.get returns for an absent name.
ValueErrorClass == [k |-> "ValueError", s |-> "", n |-> 0, items |-> <<>>]

\* Python's truth value of an object, as `if val` tests it.
Truthy(e) ==
    CASE e.k = "none" -> FALSE
      [] e.k = "int" -> e.n # 0
      [] e.k = "bool" -> e.n # 0
      [] e.k = "str" -> e.s # ""
      [] e.k = "list" -> e.items # <<>>
      [] OTHER -> TRUE

\* evaluate on the value expressions considered: a literal evaluates to
\* itself, (quote x) to x.
evaluate(e) ==
    IF e.k = "list" /\ Len(e.items) = 2 /\ e.items[1] = Str("quote")
    THEN e.items[2]
    ELSE e

GlobalNames == {"u", "v"}

\* The value expressions given to globals: the literals 0, 1, #f, #t and (),
\* and the quoted 0, #f, () and (1).
ValExprs ==
    {Num(0), Num(1), Boolean(0), Boolean(1), List(<<>>),
     List(<<Str("quote"), Num(0)>>), List(<<Str("quote"), Boolean(0)>>),
     List(<<Str("quote"), List(<<>>)>>), List(<<Str("quote"), List(<<Num(1)>>)>>)}

\* GLOBALS.get(var, ValueError).
GlobalsGet(g, var) == IF g[var] = <<>> THEN ValueErrorClass ELSE g[var][1]

\* globals(var, val): with a val that is true, GLOBALS[var] becomes its value
\* and None is returned; otherwise GLOBALS.get(var, ValueError) is returned.
GlobalsCall(var, val) ==
    /\ IF Truthy(val)
       THEN /\ GLOBALS' = [GLOBALS EXCEPT ![var] = <<evaluate(val)>>]
            /\ gres' = <<[var |-> var, val |-> val, ret |-> NoneV]>>
       ELSE /\ GLOBALS' = GLOBALS
            /\ gres' = <<[var |-> var, val |-> val, ret |-> GlobalsGet(GLOBALS, var)]>>
    /\ UNCHANGED <<evalVars, parseVars, cxr>>

\* ---------------------------------------------------------- specification

NoParse == tokens = <<>> /\ parsed = <<>> /\ pphase = "off"

NoCxr == cxr = <<>>

NoGlobals == GLOBALS = [nm \in GlobalNames |-> <<>>] /\ gres = <<>>

\* A session in which f, g and the lambda L are bound at top level.
Init ==
    /\ CLOSURES = [id \in ClosableIds |-> <<>>]
    /\ TOPENV = <<Bind("f", Fn("f")), Bind("g", Fn("g")), Bind("L", Fn("L"))>>
    /\ ENV = "top"
    /\ stack = <<>>
    /\ exc = "none"
    /\ value = IntV(0)
    /\ made = {}
    /\ calls = 0
    /\ NoParse
    /\ NoCxr
    /\ NoGlobals

\* Function calls whose bodies call functions, evaluate symbols and lambda
\* expressions, and fail.
Next ==
    \/ \E nm \in CallNames, args \in ArgLists : CallEnter(nm, args)
    \/ CallExit
    \/ CallUnwind
    \/ \E nm \in SymbolNames : EvalSymbol(nm)
    \/ EvalLambda
    \/ Raise
    \/ Catch

Spec == Init /\ [][Next]_vars

\* A session in which f and g are bound at top level, with a variable a;
\* expressions are the four forms, assignments, calls and failures.
InitForms ==
    /\ CLOSURES = [id \in ClosableIds |-> <<>>]
    /\ TOPENV = <<Bind("f", Fn("f")), Bind("g", Fn("g")), Bind("a", IntV(0))>>
    /\ ENV = "top"
    /\ stack = <<>>
    /\ exc = "none"
    /\ value = IntV(0)
    /\ made = {}
    /\ calls = 0
    /\ NoParse
    /\ NoCxr
    /\ NoGlobals

NextForms ==
    \/ \E form \in Forms : FormEnter(form)
    \/ FormExit
    \/ FormUnwind
    \/ \E nm \in {"a", "y"}, k \in 0..1 : SetVar(nm, k)
    \/ \E nm \in {"f", "g"}, args \in ArgLists : CallEnter(nm, args)
    \/ CallExit
    \/ CallUnwind
    \/ \E nm \in {"f", "g"} : EvalSymbol(nm)
    \/ Raise
    \/ Catch

SpecForms == InitForms /\ [][NextForms]_vars

\* A session with the templates Counter and Point: instances are made, their
\* methods are called and their variable n is assigned.
InitObj ==
    /\ CLOSURES = [id \in ClosableIds |->
                      IF id \in TemplateIds THEN TemplateClosure(id) ELSE <<>>]
    /\ TOPENV = <<>>
    /\ ENV = "top"
    /\ stack = <<>>
    /\ exc = "none"
    /\ value = IntV(0)
    /\ made = {}
    /\ calls = 0
    /\ NoParse
    /\ NoCxr
    /\ NoGlobals

NextObj ==
    \/ \E t \in TemplateIds, args \in ArgLists : New(t, args)
    \/ InitStep
    \/ ClosedExit
    \/ ClosedUnwind
    \/ \E i \in InstanceIds, m \in MethodNames, args \in ArgLists : InstanceEval(i, m, args)
    \/ \E nm \in MethodIds, args \in ArgLists : CallEnter(nm, args)
    \/ CallExit
    \/ CallUnwind
    \/ \E k \in 0..MaxVal : Assign(k)
    \/ EvalSymbol("add")
    \/ Catch

SpecObj == InitObj /\ [][NextObj]_vars

\* No evaluation is in progress.
NoEval ==
    /\ CLOSURES = [id \in ClosableIds |-> <<>>]
    /\ TOPENV = <<>>
    /\ ENV = "top"
    /\ stack = <<>>
    /\ exc = "none"
    /\ value = IntV(0)
    /\ made = {}
    /\ calls = 0

\* parse applied to every text of at most MaxTok tokens.
InitParse ==
    /\ tokens \in UNION {[1..n -> Alphabet] : n \in 1..MaxTok}
    /\ parsed = <<>>
    /\ pphase = "src"
    /\ NoEval
    /\ NoCxr
    /\ NoGlobals

NextParse == Parse

SpecParse == InitParse /\ [][NextParse]_vars

\* evcxr applied to every accessor of at most MaxCxr letters and every target.
InitCxr ==
    /\ cxr \in [x : CxrLetters, output : CxrTargets, status : {"run"}, acc : {""},
                letters : CxrLetters, target : CxrTargets]
    /\ cxr.letters = cxr.x
    /\ cxr.target = cxr.output
    /\ NoEval
    /\ NoParse
    /\ NoGlobals

NextCxr == EvcxrStep \/ EvcxrReturn

SpecCxr == InitCxr /\ [][NextCxr]_vars

\* A session that calls the globals builtin, with a value expression or with
\* a name alone.
InitGlobals ==
    /\ NoGlobals
    /\ NoEval
    /\ NoParse
    /\ NoCxr

NextGlobals == \E var \in GlobalNames, val \in ValExprs \cup {NoneV} : GlobalsCall(var, val)

SpecGlobals == InitGlobals /\ [][NextGlobals]_vars

\* The active Environment's bindings after a step.
ActNext == IF ENV' = "top" THEN TOPENV' ELSE CLOSURES'[ENV']

\* A step in which the innermost Function call exits (returns or unwinds).
CallExits == stack # <<>> /\ Top.kind = "call" /\ Len(stack') = Len(stack) - 1

\* No other call of the same function is in progress below the innermost one.
Outermost == \A i \in 1..(Len(stack) - 1) : ~(stack[i].kind = "call" /\ stack[i].id = Top.id)

\* A step in which the innermost special form exits (returns or unwinds).
FormExits == stack # <<>> /\ Top.kind = "form" /\ Len(stack') = Len(stack) - 1

\* C1: after Function.eval exits, by return or by a propagated failure, the
\* active Environment holds as many bindings as immediately before the call.
C1_NoLeak == [][CallExits => Len(ActNext) = Top.before]_vars

C3_SelfScoped ==
    /\ []((stack # <<>> /\ Top.kind = "call" /\ HasSelf(Top.id) /\ exc = "none")
            => (Bound(Act, "self") /\ lookup(Act, "self") = Fn(Top.id)))
    /\ [][(CallExits /\ HasSelf(Top.id) /\ Outermost /\ ~Top.selfBefore)
            => (~Bound(ActNext, "self") /\ ~Bound(CLOSURES'[Top.id], "self"))]_vars

\* C4: when a call returns a Function, the registry entry of the returned
\* Function is a copy of the caller's closure that holds the call's parameter
\* bindings.
C4_CapturesParams ==
    [][(CallExits /\ exc = "none" /\ value.t = "fn")
        => \A i \in 1..Len(Params(Top.id)) :
              /\ Bound(CLOSURES'[value.id], Params(Top.id)[i])
              /\ lookup(CLOSURES'[value.id], Params(Top.id)[i]) = Top.args[i]]_vars

\* C7: each of let, do, until and repeat leaves the active Environment with as
\* many bindings as before the form, on normal exit and when the body raises:
\* what was bound during the form is gone.
C7_FormsScoped == [][FormExits => Len(ActNext) = Top.before]_vars

C6_TemplateThenParams ==
    [][\A t \in TemplateIds, args \in ArgLists :
         New(t, args)
         => /\ CLOSURES'[NextInstance] = CLOSURES[t] \o match_arguments(<<>>, Params(t), args)
            /\ \A k \in 1..Len(Params(t)) :
                 lookup(CLOSURES'[NextInstance], Params(t)[k]) = args[k]]_vars

\* C6 amended: Template.new leaves the new instance's closure holding the
\* constructor-parameter bindings followed by a copy of the template's
\* bindings, so that a name that is both a parameter and a template variable
\* looks up to the template variable's value; the template is unchanged; the
\* init statements, if declared, then run one by one in order with the
\* instance's closure as the active scope.
C6_ParamsThenTemplate ==
    /\ [][\A t \in TemplateIds, args \in ArgLists :
            New(t, args)
            => /\ CLOSURES'[NextInstance]
                    = [k \in 1..Len(args) |-> Bind(Params(t)[k], args[k])] \o CLOSURES[t]
               /\ \A k \in 1..Len(Params(t)) :
                    Bound(CLOSURES[t], Params(t)[k])
                    => lookup(CLOSURES'[NextInstance], Params(t)[k])
                         = lookup(CLOSURES[t], Params(t)[k])
               /\ CLOSURES'[t] = CLOSURES[t]
               /\ IF \E k \in 1..Len(TemplateBody(t)) : TemplateBody(t)[k].tag = "init"
                  THEN /\ ENV' = NextInstance
                       /\ stack'[Len(stack')].kind = "closed"
                       /\ stack'[Len(stack')].pc = 1
                  ELSE ENV' = ENV /\ stack' = stack]_vars
    /\ [][(/\ stack # <<>>
           /\ Top.kind = "closed"
           /\ Top.form = "init"
           /\ Len(stack') = Len(stack)
           /\ stack'[Len(stack)].pc # Top.pc)
          => /\ ENV = Top.id
             /\ stack'[Len(stack)].pc = Top.pc + 1
             /\ Top.pc = 1 => lookup(ActNext, "m") = IntV(1)
             /\ Top.pc = 2 => lookup(ActNext, "m") = IntV(2)]_vars

\* C6: a Point made with argument 1 whose init has run: its closure starts
\* with the parameter binding n = 1, n looks up to the template's 0, and m is
\* what the last init statement set.
C6_Witness ==
    \E r \in made :
        /\ r.name = "Point"
        /\ r.ok
        /\ CLOSURES[r.id][1] = Bind("n", IntV(1))
        /\ lookup(CLOSURES[r.id], "n") = IntV(0)
        /\ lookup(CLOSURES[r.id], "m") = IntV(2)

\* C8 as stated: Instance.eval of a name that is absent from the instance's
\* closure, or bound there to a value that is not callable, fails with
\* NameError.
C8_NameError ==
    [][\A i \in InstanceIds, m \in MethodNames, args \in ArgLists :
         (InstanceEval(i, m, args)
          /\ (~Bound(CLOSURES[i], m) \/ lookup(CLOSURES[i], m).t # "fn"))
         => exc' = "NameError"]_vars

\* C8 amended: Instance.eval looks the name up in the instance's closure; an
\* absent name fails with NameError, a name bound to a value that is not
\* callable fails with AttributeError, both leaving every Environment and the
\* active scope as they were; a Function found is called with args with the
\* instance's closure as the active scope (TypeError on an arity mismatch).
C8_Dispatch ==
    [][\A i \in InstanceIds, m \in MethodNames, args \in ArgLists :
         InstanceEval(i, m, args)
         => IF ~Bound(CLOSURES[i], m)
            THEN exc' = "NameError" /\ CLOSURES' = CLOSURES /\ ENV' = ENV /\ stack' = stack
            ELSE IF lookup(CLOSURES[i], m).t # "fn"
            THEN exc' = "AttributeError" /\ CLOSURES' = CLOSURES /\ ENV' = ENV /\ stack' = stack
            ELSE IF Len(Params(lookup(CLOSURES[i], m).id)) # Len(args)
            THEN exc' = "TypeError" /\ ENV' = ENV /\ stack' = stack
            ELSE /\ exc' = "none"
                 /\ ENV' = i
                 /\ Len(stack') = Len(stack) + 2
                 /\ stack'[Len(stack')].kind = "call"
                 /\ stack'[Len(stack')].id = lookup(CLOSURES[i], m).id
                 /\ stack'[Len(stack')].args = args
                 /\ stack'[Len(stack') - 1].saved = ENV]_vars

\* C8: a dispatch on a template variable has failed with AttributeError.
C8_Witness ==
    /\ exc = "AttributeError"
    /\ calls > 0
    /\ \E r \in made : r.ok /\ r.name \in TemplateIds /\ Bound(CLOSURES[r.id], "n")

\* The text has an expression after each quote mark.
QuoteHasOperand(toks) ==
    \A i \in 1..Len(toks) : toks[i] = "'" => (i < Len(toks) /\ toks[i + 1] # ")")

\* The number of tokens of the first expression of toks.
RECURSIVE ExprLen(_)
ExprLen(toks) ==
    IF toks[1] = "'" THEN 1 + ExprLen(Tail(toks))
    ELSE IF toks[1] = "(" THEN get_opp_par(toks)
    ELSE 1

\* The text with every 'x written out as (quote x).
RECURSIVE QuoteExpand(_)
QuoteExpand(toks) ==
    IF toks = <<>> THEN <<>>
    ELSE IF toks[1] = "'"
    THEN <<"(", "quote">> \o QuoteExpand(SubSeq(toks, 2, 1 + ExprLen(Tail(toks))))
         \o <<")">> \o QuoteExpand(SubSeq(toks, 2 + ExprLen(Tail(toks)), Len(toks)))
    ELSE <<toks[1]>> \o QuoteExpand(Tail(toks))

RECURSIVE NoQuoteMark(_)
NoQuoteMark(e) ==
    IF e.k = "list" THEN \A i \in 1..Len(e.items) : NoQuoteMark(e.items[i])
    ELSE e.s # "'"

\* C9: for a balanced text in which an expression follows each quote mark,
\* parse returns an expression without quote marks, the same expression as
\* parse returns for the text with every 'x written out as (quote x).
C9_QuoteDesugared ==
    (pphase # "src" /\ Balanced(tokens) /\ QuoteHasOperand(tokens))
    => /\ pphase = "parsed"
       /\ NoQuoteMark(parsed[1])
       /\ parsed[1] = ParseOf(QuoteExpand(tokens))

\* C10: an accessor step whose target is not a list fails with a TypeError
\* naming car for the letter a and cdr for the letter d; cadr of (1 2 3) is 2,
\* car is 1 and cdr is (2 3).
C10_CxrTypeError ==
    /\ [][(cxr.status = "run" /\ cxr.x # <<>> /\ cxr.output.k # "list")
          => /\ cxr'.status = "TypeError"
             /\ cxr'.acc = (IF cxr.x[Len(cxr.x)] = "a" THEN "car" ELSE "cdr")]_vars
    /\ [](/\ cxr.status = "done"
          /\ cxr.target = CList(<<CNum(1), CNum(2), CNum(3)>>)
          => /\ cxr.letters = <<"a", "d">> => cxr.output = CNum(2)
             /\ cxr.letters = <<"a">> => cxr.output = CNum(1)
             /\ cxr.letters = <<"d">> => cxr.output = CList(<<CNum(2), CNum(3)>>))

\* C11: a call of globals with a name and a value expression leaves the
\* expression's value under that name in GLOBALS, whatever the value (0, #f
\* and the empty list included); a call with the name alone leaves GLOBALS as
\* it is and returns the value stored under the name.
C11_DefineOrRead ==
    [][\A var \in GlobalNames :
         /\ \A val \in ValExprs :
              GlobalsCall(var, val) => GLOBALS'[var] = <<evaluate(val)>>
         /\ GlobalsCall(var, NoneV)
              => /\ GLOBALS' = GLOBALS
                 /\ GLOBALS[var] # <<>> => gres'[1].ret = GLOBALS[var][1]]_vars

====
